---- MODULE Spec2Model ----
(***************************************************************************)
(* A model of weatherskald.py: the WeatherSkald class (constructor,        *)
(* fetch_forecast, weather_poem, skald_weather, skald_weather_local).      *)
(*                                                                         *)
(* Text is modelled as a sequence of tokens.  A token is either a single   *)
(* character that the code treats specially (" ", "\t", "\n", a digit,     *)
(* "-") or an atomic piece of text that contains none of them (a key name, *)
(* a literal of a format string).  Concatenation of text is \o.  External  *)
(* collaborators (file system, weather endpoint, language model, speech    *)
(* synthesis) answer nondeterministically from small sets.                 *)
(***************************************************************************)
EXTENDS Integers, Sequences, FiniteSets, TLC

VARIABLES
    cfgfile,     \* the configuration file on disk: whether it exists, its lines
    pc,          \* position of the single thread of control
    op,          \* the public method being executed ("none" between calls)
    config,      \* self.config
    outputfile,  \* self.outputfile
    client,      \* self.client: the api key it was built with, or <<"unset">>
    lineno,      \* number of lines of the file consumed by __init__'s loop
    token,       \* fetch_forecast: local token
    station_id,  \* fetch_forecast: local station_id
    response,    \* fetch_forecast: local response (the parsed JSON body)
    i,           \* fetch_forecast: loop variable
    retstr,      \* fetch_forecast: local retstr
    data,        \* weather_poem: local data
    content,     \* skald_weather / skald_weather_local: local content
    audio,       \* skald_weather: local response (the audio stream)
    gpt_response,     \* weather_poem: local gpt_response (the completion choices)
    output_file_path, \* skald_weather: local output_file_path
    speakerfile, \* skald_weather_local: parameter speakerfile
    tts,         \* skald_weather_local: local tts (the device the model runs on)
    fs,          \* output files on disk: path -> bytes, or "absent"
    log,         \* external calls of the current invocation, in order, each
                 \* with whether it succeeded and what it answered
    err,         \* exception that left the last constructor / method, or "none"
    result,      \* value returned by the last method, or "none"
    ncalls       \* number of method invocations started on the instance

vars == <<cfgfile, pc, op, config, outputfile, client, lineno, token, station_id,
          response, i, retstr, data, gpt_response, output_file_path, content,
          audio, speakerfile, tts, fs, log, err, result, ncalls>>

(***************************************************************************)
(* Bounds of the model.                                                    *)
(***************************************************************************)
MaxCalls == 2      \* method invocations per instance
MaxDays == 10      \* longest forecast.daily array the weather endpoint returns

(***************************************************************************)
(* Text helpers.                                                           *)
(***************************************************************************)
None == <<"unset">>

Contains(s, t) == \E k \in 1..Len(s) : s[k] = t

\* index of the first occurrence of token t in s (s must contain t)
FirstIndex(s, t) == CHOOSE k \in 1..Len(s) : s[k] = t /\ \A j \in 1..(k-1) : s[j] # t

Digit(d) == CASE d = 0 -> "0" [] d = 1 -> "1" [] d = 2 -> "2" [] d = 3 -> "3"
              [] d = 4 -> "4" [] d = 5 -> "5" [] d = 6 -> "6" [] d = 7 -> "7"
              [] d = 8 -> "8" [] d = 9 -> "9"

RECURSIVE NatStr(_)
NatStr(n) == IF n < 10 THEN <<Digit(n)>> ELSE NatStr(n \div 10) \o <<Digit(n % 10)>>

\* JSON scalars of a response body: a number or a string
JNum(n) == [num |-> n]
JStr(s) == [str |-> s]

\* str() of a JSON scalar inside an f-string: a number is rendered in
\* decimal, a string is itself
Str(v) == IF "num" \in DOMAIN v
          THEN (IF v.num < 0 THEN <<"-">> \o NatStr(0 - v.num) ELSE NatStr(v.num))
          ELSE v.str

(***************************************************************************)
(* Configuration file parsing: __init__, lines 53-55.                      *)
(***************************************************************************)
\* line.split(" "): cut at every single " "
RECURSIVE Split(_)
Split(line) ==
    IF ~Contains(line, " ") THEN <<line>>
    ELSE LET p == FirstIndex(line, " ")
         IN <<SubSeq(line, 1, p - 1)>> \o Split(SubSeq(line, p + 1, Len(line)))

\* s.strip('\n'): drop every leading and trailing "\n"
RECURSIVE StripNL(_)
StripNL(s) ==
    IF s = << >> THEN s
    ELSE IF Head(s) = "\n" THEN StripNL(Tail(s))
    ELSE IF s[Len(s)] = "\n" THEN StripNL(SubSeq(s, 1, Len(s) - 1))
    ELSE s

\* self.config[k] = v
DictSet(d, k, v) == [x \in DOMAIN d \cup {k} |-> IF x = k THEN v ELSE d[x]]

EmptyDict == [x \in {} |-> << >>]

(***************************************************************************)
(* The inputs: configuration files and constructor arguments.              *)
(***************************************************************************)
KeyToken == <<"weatherflow_token">>
KeyStation == <<"weatherflow_station_id">>
KeyOpenAI == <<"openai_key">>

\* one line of a configuration file: key, separator, value, line end
CfgLine(k, sep, v, end) == k \o sep \o v \o end

Separators == {<< >>, <<" ">>, <<" ", " ">>, <<"\t">>}
NL == <<"\n">>

\* the file the README describes: one "key value" line per required key
Canonical ==
    << CfgLine(KeyToken, <<" ">>, <<"T">>, NL),
       CfgLine(KeyStation, <<" ">>, <<"123">>, NL),
       CfgLine(KeyOpenAI, <<" ">>, <<"K">>, NL) >>

CanonicalKeys == <<KeyToken, KeyStation, KeyOpenAI>>
CanonicalVals == << <<"T">>, <<"123">>, <<"K">> >>

VariantVals(j) == {CanonicalVals[j], <<"456">>, <<"a", " ", "b">>}

ReplaceLine(f, j, l) == [x \in DOMAIN f |-> IF x = j THEN l ELSE f[x]]
DropLine(f, j) == SubSeq(f, 1, j - 1) \o SubSeq(f, j + 1, Len(f))

\* the contents tried: the canonical file, every file that differs from it
\* in one line (another separator, another value, no final newline, the
\* line missing, a blank line, a key given twice) and the empty file
CfgContents ==
    {<< >>, Canonical}
    \cup UNION { UNION { { ReplaceLine(Canonical, j, CfgLine(CanonicalKeys[j], sep, v, NL)) :
                             v \in VariantVals(j) } : sep \in Separators } : j \in 1..3 }
    \cup { DropLine(Canonical, j) : j \in 1..3 }
    \cup { ReplaceLine(Canonical, 3, CfgLine(KeyOpenAI, <<" ">>, <<"K">>, << >>)) }
    \cup { ReplaceLine(Canonical, j, NL) : j \in 1..3 }
    \cup { Canonical \o <<CfgLine(KeyStation, <<" ">>, <<"456">>, NL)>> }

\* a configuration file on disk, or none
CfgFiles ==
    {[exists |-> FALSE, lines |-> << >>]}
    \cup {[exists |-> TRUE, lines |-> f] : f \in CfgContents}

OutputNames == {<<"skaldic_weather">>, <<"other">>}

(***************************************************************************)
(* What the external collaborators may answer.                             *)
(***************************************************************************)
NDays == 9     \* range(9) in fetch_forecast

CurrentA == [air_temperature |-> JNum(72), feels_like |-> JNum(70),
             relative_humidity |-> JNum(45)]
CurrentB == [air_temperature |-> JNum(-4), feels_like |-> JNum(-11),
             relative_humidity |-> JNum(100)]
\* a current_conditions object without feels_like
CurrentPartial == [air_temperature |-> JNum(72), relative_humidity |-> JNum(45)]

\* the k-th entry (from 1) of a forecast.daily array of series s
DayEntry(s, k) ==
    [month_num |-> JNum(IF k + s > 6 THEN 12 ELSE 11),
     day_num |-> JNum(IF k + s > 6 THEN k + s - 6 ELSE 24 + k + s - 1),
     conditions |-> JStr(IF s = 1 THEN <<"Clear">> ELSE <<"Rain", " ", "Likely">>),
     air_temp_high |-> JNum(40 + k + s),
     air_temp_low |-> JNum(4 - k)]

Daily(s, n) == [k \in 1..n |-> DayEntry(s, k)]

\* a daily array whose fifth entry has no conditions field
DailyBroken(n) ==
    [k \in 1..n |-> IF k = 5 THEN [month_num |-> JNum(11), day_num |-> JNum(29),
                                   air_temp_high |-> JNum(45), air_temp_low |-> JNum(-1)]
                    ELSE DayEntry(1, k)]

Body(cc, daily) == [current_conditions |-> cc, forecast |-> [daily |-> daily]]

WeatherBodies ==
    { Body(CurrentA, Daily(1, n)) : n \in 0..MaxDays }
    \cup { Body(CurrentB, Daily(2, n)) : n \in 0..MaxDays }
    \cup { Body(CurrentPartial, Daily(1, NDays)),
           Body(CurrentA, DailyBroken(NDays)),
           [forecast |-> [daily |-> Daily(1, NDays)]],
           [current_conditions |-> CurrentA],
           [current_conditions |-> CurrentA, forecast |-> [hourly |-> << >>]] }

\* response.json(): the body parses as JSON or it does not
WeatherResponses ==
    {[json |-> FALSE]} \cup {[json |-> TRUE, body |-> b] : b \in WeatherBodies}

NoResponse == [json |-> FALSE]

Poems == { <<"A frost descends">>, <<"Hail, ", "storm">> }

\* the choices of a chat completion: none, one or two
Completions ==
    {<< >>} \cup {<<p>> : p \in Poems} \cup {c \in Poems \X Poems : c[1] # c[2]}

AudioStreams == { <<"00", "01">>, <<"ff">> }

SpeakerFiles == {"weatherskald_default.wav"}

(***************************************************************************)
(* Control.                                                                *)
(***************************************************************************)
\* the frames of the methods hold nothing
ClearLocals ==
    /\ token' = None /\ station_id' = None /\ response' = NoResponse /\ i' = 0
    /\ retstr' = None /\ data' = None /\ gpt_response' = << >>
    /\ output_file_path' = None /\ content' = None /\ audio' = None
    /\ speakerfile' = "" /\ tts' = ""

\* an exception nobody catches leaves the running method: every frame is
\* unwound and the caller sees e
Raise(e) ==
    /\ err' = e
    /\ result' = None
    /\ pc' = "idle"
    /\ ClearLocals

\* the public method op returns v to its caller
Return(v) ==
    /\ err' = "none"
    /\ result' = v
    /\ pc' = "idle"
    /\ ClearLocals

Init ==
    /\ cfgfile \in CfgFiles
    /\ pc = "new"
    /\ op = "none"
    /\ config = EmptyDict
    /\ outputfile = None
    /\ client = None
    /\ lineno = 0
    /\ token = None /\ station_id = None /\ response = NoResponse /\ i = 0
    /\ retstr = None /\ data = None /\ gpt_response = << >>
    /\ output_file_path = None /\ content = None /\ audio = None
    /\ speakerfile = "" /\ tts = ""
    /\ fs = [x \in {} |-> << >>]
    /\ log = << >>
    /\ err = "none"
    /\ result = None
    /\ ncalls = 0

(***************************************************************************)
(* WeatherSkald.__init__                                                   *)
(***************************************************************************)
\* lines 50-52: the attributes are set, the file is opened
InitOpen ==
    /\ pc = "new"
    /\ \E o \in OutputNames : outputfile' = o
    /\ config' = EmptyDict
    /\ IF cfgfile.exists
       THEN pc' = "readlines" /\ err' = "none"
       ELSE pc' = "failed" /\ err' = "FileNotFoundError"
    /\ UNCHANGED <<cfgfile, op, client, lineno, token, station_id, response, i,
                   retstr, data, gpt_response, output_file_path, content, audio,
                   speakerfile, tts, fs, log, result, ncalls>>

\* the entry of the mapping one line of the file makes: larr[0], larr[1].strip('\n')
LineKey(line) == Split(line)[1]
LineValue(line) == StripNL(Split(line)[2])

\* lines 53-55: one iteration of the loop over the lines
InitLine ==
    /\ pc = "readlines"
    /\ lineno < Len(cfgfile.lines)
    /\ LET line == cfgfile.lines[lineno + 1]
       IN IF Len(Split(line)) < 2
          THEN /\ pc' = "failed" /\ err' = "IndexError"
               /\ UNCHANGED <<config, lineno>>
          ELSE /\ config' = DictSet(config, LineKey(line), LineValue(line))
               /\ lineno' = lineno + 1
               /\ UNCHANGED <<pc, err>>
    /\ UNCHANGED <<cfgfile, op, outputfile, client, token, station_id, response, i,
                   retstr, data, gpt_response, output_file_path, content, audio,
                   speakerfile, tts, fs, log, result, ncalls>>

\* line 56: the client is built from config['openai_key']
InitClient ==
    /\ pc = "readlines"
    /\ lineno = Len(cfgfile.lines)
    /\ IF KeyOpenAI \in DOMAIN config
       THEN client' = config[KeyOpenAI] /\ pc' = "idle" /\ err' = "none"
       ELSE client' = client /\ pc' = "failed" /\ err' = "KeyError"
    /\ UNCHANGED <<cfgfile, op, config, outputfile, lineno, token, station_id,
                   response, i, retstr, data, gpt_response, output_file_path,
                   content, audio, speakerfile, tts, fs, log, result, ncalls>>

(***************************************************************************)
(* Calls of the public methods on a constructed instance.                  *)
(***************************************************************************)
\* what no method assigns: the file on disk and the instance attributes
inst == <<cfgfile, config, outputfile, client, lineno>>

\* a caller starts a method: nothing of an earlier call is in its frame
Enter(method) ==
    /\ pc = "idle"
    /\ ncalls < MaxCalls
    /\ ncalls' = ncalls + 1
    /\ op' = method
    /\ log' = << >>
    /\ err' = "none"
    /\ result' = None

\* fetch_forecast() called directly; its body starts at line 66
CallFetchForecast ==
    /\ Enter("fetch_forecast")
    /\ pc' = "fetch_config"
    /\ UNCHANGED <<inst, token, station_id, response, i, retstr, data, gpt_response,
                   output_file_path, content, audio, speakerfile, tts, fs>>

\* weather_poem() called directly; line 93 calls fetch_forecast()
CallWeatherPoem ==
    /\ Enter("weather_poem")
    /\ pc' = "fetch_config"
    /\ UNCHANGED <<inst, token, station_id, response, i, retstr, data, gpt_response,
                   output_file_path, content, audio, speakerfile, tts, fs>>

\* the path skald_weather() writes: self.outputfile + ".mp3"
HostedPath(base) == base \o <<".mp3">>

\* CallSkaldWeather with the path stored in the attribute instead of the local
CallSkaldWeatherAssign ==
    /\ Enter("skald_weather")
    /\ outputfile' = HostedPath(outputfile)
    /\ output_file_path' = HostedPath(outputfile)
    /\ pc' = "fetch_config"
    /\ UNCHANGED <<cfgfile, config, client, lineno, token, station_id, response, i,
                   retstr, data, gpt_response, content, audio, speakerfile, tts, fs>>

\* skald_weather(): line 101, then line 102 calls weather_poem()
CallSkaldWeather ==
    /\ Enter("skald_weather")
    /\ output_file_path' = HostedPath(outputfile)
    /\ pc' = "fetch_config"
    /\ UNCHANGED <<inst, token, station_id, response, i, retstr, data, gpt_response,
                   content, audio, speakerfile, tts, fs>>

\* skald_weather_local(speakerfile)
CallSkaldWeatherLocal ==
    /\ Enter("skald_weather_local")
    /\ \E s \in SpeakerFiles : speakerfile' = s
    /\ pc' = "import"
    /\ UNCHANGED <<inst, token, station_id, response, i, retstr, data, gpt_response,
                   output_file_path, content, audio, tts, fs>>

(***************************************************************************)
(* WeatherSkald.fetch_forecast                                             *)
(***************************************************************************)
\* lines 66-69: the token and the station id are read from the configuration
FetchConfig ==
    /\ pc = "fetch_config"
    /\ IF KeyToken \in DOMAIN config /\ KeyStation \in DOMAIN config
       THEN /\ token' = config[KeyToken]
            /\ station_id' = config[KeyStation]
            /\ retstr' = << >>
            /\ pc' = "fetch_get"
            /\ UNCHANGED <<response, i, data, gpt_response, output_file_path,
                           content, audio, speakerfile, tts, err, result>>
       ELSE Raise("KeyError")
    /\ UNCHANGED <<inst, op, fs, log, ncalls>>

\* line 71: the query parameters of fetch_url
FetchUrl(tok, station) ==
    [station_id |-> <<"67295">>, units_temp |-> "f", units_wind |-> "mph",
     units_pressure |-> "mmhg", units_precip |-> "in", units_distance |-> "mi",
     token |-> tok]

\* lines 71-73: one GET; the transport fails or a response arrives
FetchGet ==
    /\ pc = "fetch_get"
    /\ \/ /\ log' = Append(log, [svc |-> "weather", ok |-> FALSE,
                                 url |-> FetchUrl(token, station_id)])
          /\ Raise("ConnectionError")
       \/ /\ \E r \in WeatherResponses :
               /\ response' = r
               /\ log' = Append(log, [svc |-> "weather", ok |-> TRUE,
                                      url |-> FetchUrl(token, station_id),
                                      response |-> r])
          /\ pc' = "fetch_parse"
          /\ UNCHANGED <<token, station_id, i, retstr, data, gpt_response,
                         output_file_path, content, audio, speakerfile, tts, err,
                         result>>
    /\ UNCHANGED <<inst, op, fs, ncalls>>

\* line 76: the text made of the current conditions
CurrentText(cc) ==
    <<"Air-Temp ">> \o Str(cc.air_temperature) \o <<"F (feels like ">>
    \o Str(cc.feels_like) \o <<"F). ">> \o Str(cc.relative_humidity)
    \o <<"% humidity">>

\* DayText with the low temperature before the high
DayTextSwapped(dfc) ==
    Str(dfc.month_num) \o <<"/">> \o Str(dfc.day_num) \o <<": ">>
    \o Str(dfc.conditions) \o <<", ">> \o Str(dfc.air_temp_low) \o <<"/">>
    \o Str(dfc.air_temp_high) \o <<"F">>

\* line 81: the text made of one daily entry
DayText(dfc) ==
    Str(dfc.month_num) \o <<"/">> \o Str(dfc.day_num) \o <<": ">>
    \o Str(dfc.conditions) \o <<", ">> \o Str(dfc.air_temp_high) \o <<"/">>
    \o Str(dfc.air_temp_low) \o <<"F">>

CurrentFields == {"air_temperature", "feels_like", "relative_humidity"}
DayFields == {"month_num", "day_num", "conditions", "air_temp_high", "air_temp_low"}

\* lines 74-76: the body is parsed, cc and dfcs are taken out of it
FetchParse ==
    /\ pc = "fetch_parse"
    /\ IF ~response.json
       THEN Raise("JSONDecodeError")
       ELSE IF \/ "current_conditions" \notin DOMAIN response.body
               \/ "forecast" \notin DOMAIN response.body
               \/ "daily" \notin DOMAIN response.body.forecast
               \/ ~(CurrentFields \subseteq DOMAIN response.body.current_conditions)
       THEN Raise("KeyError")
       ELSE /\ retstr' = CurrentText(response.body.current_conditions)
            /\ i' = 0
            /\ pc' = "fetch_loop"
            /\ UNCHANGED <<token, station_id, response, data, gpt_response,
                           output_file_path, content, audio, speakerfile, tts, err,
                           result>>
    /\ UNCHANGED <<inst, op, fs, log, ncalls>>

\* FetchLoop with the loop ending quietly when the array runs out
FetchLoopTruncating ==
    /\ pc = "fetch_loop"
    /\ i < NDays
    /\ LET dfcs == response.body.forecast.daily
       IN IF i + 1 > Len(dfcs)
          THEN /\ i' = NDays
               /\ UNCHANGED <<pc, token, station_id, response, retstr, data,
                              gpt_response, output_file_path, content, audio,
                              speakerfile, tts, err, result>>
          ELSE IF ~(DayFields \subseteq DOMAIN dfcs[i + 1])
          THEN Raise("KeyError")
          ELSE /\ retstr' = retstr \o DayText(dfcs[i + 1])
               /\ i' = i + 1
               /\ UNCHANGED <<pc, token, station_id, response, data, gpt_response,
                              output_file_path, content, audio, speakerfile, tts,
                              err, result>>
    /\ UNCHANGED <<inst, op, fs, log, ncalls>>

\* lines 79-81: one iteration of the loop; i counts the iterations done, so
\* the entry read is dfcs[i] of the code, the (i+1)-th of the array
FetchLoop ==
    /\ pc = "fetch_loop"
    /\ i < NDays
    /\ LET dfcs == response.body.forecast.daily
       IN IF i + 1 > Len(dfcs)
          THEN Raise("IndexError")
          ELSE IF ~(DayFields \subseteq DOMAIN dfcs[i + 1])
          THEN Raise("KeyError")
          ELSE /\ retstr' = retstr \o DayText(dfcs[i + 1])
               /\ i' = i + 1
               /\ UNCHANGED <<pc, token, station_id, response, data, gpt_response,
                              output_file_path, content, audio, speakerfile, tts,
                              err, result>>
    /\ UNCHANGED <<inst, op, fs, log, ncalls>>

\* line 83: retstr goes to the caller, which is weather_poem (line 93)
\* unless fetch_forecast was called directly
FetchReturn ==
    /\ pc = "fetch_loop"
    /\ i = NDays
    /\ IF op = "fetch_forecast"
       THEN Return(retstr)
       ELSE /\ data' = retstr
            /\ pc' = "poem_request"
            /\ token' = None /\ station_id' = None /\ response' = NoResponse
            /\ i' = 0 /\ retstr' = None
            /\ UNCHANGED <<gpt_response, output_file_path, content, audio,
                           speakerfile, tts, err, result>>
    /\ UNCHANGED <<inst, op, fs, log, ncalls>>

(***************************************************************************)
(* WeatherSkald.weather_poem                                               *)
(***************************************************************************)
\* line 94: the prompt
Prompt(d) ==
    <<"Write a paragraph describing the following weather in the style of a Viking skald: ">>
    \o d

\* line 95: the single user message
Messages(d) == <<[role |-> "user", content |-> Prompt(d)]>>

\* PoemRequest with a failed request tried again
PoemRequestRetry ==
    /\ pc = "poem_request"
    /\ \/ /\ log' = Append(log, [svc |-> "llm", ok |-> FALSE, model |-> "gpt-4",
                                 api_key |-> client, messages |-> Messages(data)])
          /\ UNCHANGED <<pc, gpt_response>>
       \/ /\ \E c \in Completions :
               /\ gpt_response' = c
               /\ log' = Append(log, [svc |-> "llm", ok |-> TRUE, model |-> "gpt-4",
                                      api_key |-> client, messages |-> Messages(data),
                                      response |-> c])
          /\ pc' = "poem_return"
    /\ UNCHANGED <<token, station_id, response, i, retstr, data,
                   output_file_path, content, audio, speakerfile, tts, err, result>>
    /\ UNCHANGED <<inst, op, fs, ncalls>>

\* lines 94-95: one chat completion request; it fails or choices arrive
PoemRequest ==
    /\ pc = "poem_request"
    /\ \/ /\ log' = Append(log, [svc |-> "llm", ok |-> FALSE, model |-> "gpt-4",
                                 api_key |-> client, messages |-> Messages(data)])
          /\ Raise("APIError")
       \/ /\ \E c \in Completions :
               /\ gpt_response' = c
               /\ log' = Append(log, [svc |-> "llm", ok |-> TRUE, model |-> "gpt-4",
                                      api_key |-> client, messages |-> Messages(data),
                                      response |-> c])
          /\ pc' = "poem_return"
          /\ UNCHANGED <<token, station_id, response, i, retstr, data,
                         output_file_path, content, audio, speakerfile, tts, err,
                         result>>
    /\ UNCHANGED <<inst, op, fs, ncalls>>

\* where the caller of weather_poem() goes on: line 103 or line 119
AfterPoem(method) == IF method = "skald_weather" THEN "speech" ELSE "load_model"

\* PoemReturn taking the last choice instead of the first
PoemReturnLast ==
    /\ pc = "poem_return"
    /\ IF gpt_response = << >>
       THEN Raise("IndexError")
       ELSE IF op = "weather_poem"
       THEN Return(gpt_response[Len(gpt_response)])
       ELSE /\ content' = gpt_response[Len(gpt_response)]
            /\ pc' = AfterPoem(op)
            /\ data' = None /\ gpt_response' = << >>
            /\ UNCHANGED <<token, station_id, response, i, retstr,
                           output_file_path, audio, speakerfile, tts, err, result>>
    /\ UNCHANGED <<inst, op, fs, log, ncalls>>

\* line 96: choices[0].message.content goes to the caller (line 102 or 117)
\* unless weather_poem was called directly
PoemReturn ==
    /\ pc = "poem_return"
    /\ IF gpt_response = << >>
       THEN Raise("IndexError")
       ELSE IF op = "weather_poem"
       THEN Return(gpt_response[1])
       ELSE /\ content' = gpt_response[1]
            /\ pc' = AfterPoem(op)
            /\ data' = None /\ gpt_response' = << >>
            /\ UNCHANGED <<token, station_id, response, i, retstr,
                           output_file_path, audio, speakerfile, tts, err, result>>
    /\ UNCHANGED <<inst, op, fs, log, ncalls>>

(***************************************************************************)
(* WeatherSkald.skald_weather                                              *)
(***************************************************************************)
\* SkaldSpeech with the failure of the request caught and ignored: the
\* method goes on to write an empty stream
SkaldSpeechSwallow ==
    /\ pc = "speech"
    /\ \/ /\ audio' = << >>
          /\ log' = Append(log, [svc |-> "speech", ok |-> FALSE, model |-> "tts-1",
                                 voice |-> "onyx", api_key |-> client,
                                 input |-> content])
       \/ /\ \E a \in AudioStreams :
               /\ audio' = a
               /\ log' = Append(log, [svc |-> "speech", ok |-> TRUE, model |-> "tts-1",
                                      voice |-> "onyx", api_key |-> client,
                                      input |-> content, response |-> a])
    /\ pc' = "stream_to_file"
    /\ UNCHANGED <<token, station_id, response, i, retstr, data, gpt_response,
                   output_file_path, content, speakerfile, tts, err, result>>
    /\ UNCHANGED <<inst, op, fs, ncalls>>

\* line 103: one speech request; it fails or an audio stream arrives
SkaldSpeech ==
    /\ pc = "speech"
    /\ \/ /\ log' = Append(log, [svc |-> "speech", ok |-> FALSE, model |-> "tts-1",
                                 voice |-> "onyx", api_key |-> client,
                                 input |-> content])
          /\ Raise("APIError")
       \/ /\ \E a \in AudioStreams :
               /\ audio' = a
               /\ log' = Append(log, [svc |-> "speech", ok |-> TRUE, model |-> "tts-1",
                                      voice |-> "onyx", api_key |-> client,
                                      input |-> content, response |-> a])
          /\ pc' = "stream_to_file"
          /\ UNCHANGED <<token, station_id, response, i, retstr, data, gpt_response,
                         output_file_path, content, speakerfile, tts, err, result>>
    /\ UNCHANGED <<inst, op, fs, ncalls>>

\* line 104: the stream is written to output_file_path, or the file cannot
\* be opened for writing
SkaldWrite ==
    /\ pc = "stream_to_file"
    /\ \/ /\ log' = Append(log, [svc |-> "write", ok |-> FALSE,
                                 path |-> output_file_path])
          /\ Raise("OSError")
          /\ UNCHANGED fs
       \/ /\ fs' = DictSet(fs, output_file_path, audio)
          /\ log' = Append(log, [svc |-> "write", ok |-> TRUE,
                                 path |-> output_file_path, bytes |-> audio])
          /\ Return(<<"None">>)
    /\ UNCHANGED <<inst, op, ncalls>>

(***************************************************************************)
(* WeatherSkald.skald_weather_local                                        *)
(***************************************************************************)
\* lines 114-115: torch and TTS are imported, or are not installed
LocalImport ==
    /\ pc = "import"
    /\ \/ Raise("ImportError")
       \/ /\ pc' = "fetch_config"
          /\ UNCHANGED <<token, station_id, response, i, retstr, data, gpt_response,
                         output_file_path, content, audio, speakerfile, tts, err,
                         result>>
    /\ UNCHANGED <<inst, op, fs, log, ncalls>>

\* line 119
Device(cuda) == IF cuda THEN "cuda" ELSE "cpu"

\* lines 119-121: the device is chosen and the model is loaded onto it
LocalLoadModel ==
    /\ pc = "load_model"
    /\ \/ Raise("ModelLoadError")
       \/ /\ \E cuda \in BOOLEAN : tts' = Device(cuda)
          /\ pc' = "tts_to_file"
          /\ UNCHANGED <<token, station_id, response, i, retstr, data, gpt_response,
                         output_file_path, content, audio, speakerfile, err, result>>
    /\ UNCHANGED <<inst, op, fs, log, ncalls>>

\* the path skald_weather_local() writes: line 122
LocalPath(base) == base \o <<".mp3">>

\* line 122: the model reads the speaker file, synthesises the text and
\* writes the audio; the speaker file may be missing and the destination
\* may not be writable
LocalTtsToFile ==
    /\ pc = "tts_to_file"
    /\ \/ /\ log' = Append(log, [svc |-> "tts_to_file", ok |-> FALSE,
                                 text |-> content, speaker_wav |-> speakerfile,
                                 language |-> "en", device |-> tts,
                                 file_path |-> LocalPath(outputfile)])
          /\ Raise("OSError")
          /\ UNCHANGED fs
       \/ \E a \in AudioStreams :
          /\ fs' = DictSet(fs, LocalPath(outputfile), a)
          /\ log' = log \o <<[svc |-> "tts_to_file", ok |-> TRUE,
                              text |-> content, speaker_wav |-> speakerfile,
                              language |-> "en", device |-> tts,
                              file_path |-> LocalPath(outputfile), response |-> a],
                             [svc |-> "write", ok |-> TRUE,
                              path |-> LocalPath(outputfile), bytes |-> a]>>
          /\ Return(<<"None">>)
    /\ UNCHANGED <<inst, op, ncalls>>

(***************************************************************************)
(* The program.                                                            *)
(***************************************************************************)
Next ==
    \/ InitOpen \/ InitLine \/ InitClient
    \/ CallFetchForecast \/ CallWeatherPoem \/ CallSkaldWeather
    \/ CallSkaldWeatherLocal
    \/ FetchConfig \/ FetchGet \/ FetchParse \/ FetchLoop \/ FetchReturn
    \/ PoemRequest \/ PoemReturn
    \/ SkaldSpeech \/ SkaldWrite
    \/ LocalImport \/ LocalLoadModel \/ LocalTtsToFile

Spec == Init /\ [][Next]_vars

(***************************************************************************)
(* Vocabulary of the properties.                                           *)
(***************************************************************************)
\* the concatenation of a sequence of texts
RECURSIVE Flatten(_)
Flatten(ss) == IF ss = << >> THEN << >> ELSE Head(ss) \o Flatten(Tail(ss))

\* is t a contiguous part of s
IsInfix(t, s) == \E k \in 0..(Len(s) - Len(t)) : SubSeq(s, k + 1, k + Len(t)) = t

\* a method invocation has ended (by a return or by an exception)
Finished == pc = "idle" /\ ncalls > 0
Succeeded == Finished /\ err = "none"

RequiredKeys == {KeyToken, KeyStation, KeyOpenAI}

\* the external calls of one invocation of method m, in pipeline order
Pipeline(m) ==
    CASE m = "fetch_forecast" -> <<"weather">>
      [] m = "weather_poem" -> <<"weather", "llm">>
      [] m = "skald_weather" -> <<"weather", "llm", "speech", "write">>
      [] m = "skald_weather_local" -> <<"weather", "llm", "tts_to_file", "write">>
      [] OTHER -> << >>

\* the exception a failed external call raises
StageError(svc) ==
    CASE svc = "weather" -> "ConnectionError"
      [] svc = "llm" -> "APIError"
      [] svc = "speech" -> "APIError"
      [] OTHER -> "OSError"

\* C1 (state part): a failed external call is the last call of its
\* invocation, the invocation has ended with that call's error and without
\* a value; while a method runs no error is pending; a file is written only
\* after the weather call, the completion call and the synthesis call of
\* the same invocation all succeeded.
C1_State ==
    /\ \A k \in 1..Len(log) :
          ~log[k].ok => /\ k = Len(log)
                        /\ pc = "idle"
                        /\ err = StageError(log[k].svc)
                        /\ result = None
    /\ err # "none" => (pc \in {"idle", "failed"} /\ result = None)
    /\ \A k \in 1..Len(log) :
          (log[k].svc = "write" /\ log[k].ok) =>
              /\ k = 4
              /\ log[1].svc = "weather" /\ log[2].svc = "llm"
              /\ log[3].svc \in {"speech", "tts_to_file"}
              /\ \A j \in 1..3 : log[j].ok

\* C1: every step leaves the state as C1_State says; a step that raises an
\* error ends the invocation and leaves the disk alone; the disk changes
\* only in the step that ends a fully successful hosted or local run, and
\* then by exactly the file that run wrote.
C1_FailureAborts ==
    [][ /\ C1_State'
        /\ (err' # "none" /\ pc \notin {"new", "readlines"}) =>
              (pc' = "idle" /\ fs' = fs /\ Len(log') <= Len(log) + 1)
        /\ fs' # fs =>
              /\ err' = "none" /\ pc' = "idle" /\ Len(log') = 4
              /\ log'[4].svc = "write" /\ log'[4].ok
              /\ fs' = DictSet(fs, log'[4].path, log'[4].bytes) ]_vars

\* C1 witness: the speech request of skald_weather() failed after the
\* forecast and the poem were obtained; the error is with the caller and
\* nothing was written.
C1_Witness ==
    /\ Finished /\ op = "skald_weather" /\ err = "APIError"
    /\ Len(log) = 3 /\ log[1].ok /\ log[2].ok /\ ~log[3].ok
    /\ fs = [x \in {} |-> << >>]

\* the reading of a configuration line the specification gives: the key is
\* the text before the first whitespace, the value the whole text after the
\* first whitespace run, without the trailing newline (the space is the
\* only whitespace counted here, the narrowest reading of "whitespace")
Whitespace == {" "}
HasWhitespace(line) == \E k \in 1..Len(line) : line[k] \in Whitespace
FirstWhitespace(line) ==
    CHOOSE k \in 1..Len(line) : line[k] \in Whitespace
                                /\ \A j \in 1..(k - 1) : line[j] \notin Whitespace
RECURSIVE SkipWhitespace(_)
SkipWhitespace(s) ==
    IF s # << >> /\ Head(s) \in Whitespace THEN SkipWhitespace(Tail(s)) ELSE s
DropTrailingNL(s) ==
    IF s # << >> /\ s[Len(s)] = "\n" THEN SubSeq(s, 1, Len(s) - 1) ELSE s
SpecKey(line) == SubSeq(line, 1, FirstWhitespace(line) - 1)
SpecValue(line) ==
    DropTrailingNL(SkipWhitespace(SubSeq(line, FirstWhitespace(line), Len(line))))
WellFormedLine(line) ==
    HasWhitespace(line) /\ SpecKey(line) # << >> /\ SpecValue(line) # << >>
WellFormedFile ==
    cfgfile.exists /\ \A j \in 1..Len(cfgfile.lines) : WellFormedLine(cfgfile.lines[j])
\* the last line of the file that gives key k
LastLineOf(k) ==
    CHOOSE j \in 1..Len(cfgfile.lines) :
        /\ SpecKey(cfgfile.lines[j]) = k
        /\ \A m \in (j + 1)..Len(cfgfile.lines) : SpecKey(cfgfile.lines[m]) # k
SpecKeys == {SpecKey(cfgfile.lines[j]) : j \in 1..Len(cfgfile.lines)}

\* C2: for a well-formed file the constructor does not stop at a line, and
\* the mapping it leaves has exactly the keys of the file, each with the
\* whole text after its first whitespace separator, newline stripped.
C2_ConfigExact ==
    WellFormedFile =>
        /\ ~(pc = "failed" /\ err = "IndexError")
        /\ pc = "idle" =>
              /\ DOMAIN config = SpecKeys
              /\ \A k \in SpecKeys : config[k] = SpecValue(cfgfile.lines[LastLineOf(k)])

\* C3: when the file is missing, or a line has no separator, or a required
\* key is not in the file, no instance is ever usable; and no method ever
\* fails on a missing configuration key.
C3_ConstructionValidates ==
    /\ ( \/ ~cfgfile.exists
         \/ \E j \in 1..Len(cfgfile.lines) : ~HasWhitespace(cfgfile.lines[j])
         \/ ~(RequiredKeys \subseteq SpecKeys) )
       => pc \in {"new", "readlines", "failed"}
    /\ ~(Finished /\ err = "KeyError" /\ log = << >>)

\* C4: every weather request carries the configured station id and token.
C4_RequestFromConfig ==
    \A k \in 1..Len(log) :
        log[k].svc = "weather" =>
            /\ log[k].url.station_id = config[KeyStation]
            /\ log[k].url.token = config[KeyToken]

\* C5: the hosted run writes <outputfile>.mp3, the local run writes
\* <outputfile>.wav, so a local run never writes the hosted run's path.
C5_ExtensionByBackend ==
    \A k \in 1..Len(log) :
        log[k].svc = "write" =>
            /\ op = "skald_weather" => log[k].path = outputfile \o <<".mp3">>
            /\ op = "skald_weather_local" =>
                  /\ log[k].path = outputfile \o <<".wav">>
                  /\ log[k].path # HostedPath(outputfile)

\* the body of the weather response of the current invocation
GotWeather == Len(log) >= 1 /\ log[1].svc = "weather" /\ log[1].ok /\ log[1].response.json
WeatherBody == log[1].response.body
HasDaily(b) == "forecast" \in DOMAIN b /\ "daily" \in DOMAIN b.forecast

\* C6: once the weather response has a daily array of fewer than nine
\* entries, the invocation makes no further external call, returns no
\* value, never gets past the loop of fetch_forecast, and ends with an
\* index or key error.
C6_ShortForecastFails ==
    (GotWeather /\ HasDaily(WeatherBody) /\ Len(WeatherBody.forecast.daily) < NDays) =>
        /\ Len(log) = 1
        /\ result = None
        /\ pc \in {"fetch_parse", "fetch_loop", "idle"}
        /\ pc = "fetch_loop" => i <= Len(WeatherBody.forecast.daily)
        /\ pc = "idle" => err \in {"IndexError", "KeyError"}

\* C6 witness: weather_poem() ended with IndexError on a response with
\* eight daily entries, the weather request being its only external call.
C6_Witness ==
    /\ Finished /\ op = "weather_poem" /\ err = "IndexError"
    /\ GotWeather /\ HasDaily(WeatherBody)
    /\ Len(WeatherBody.forecast.daily) = NDays - 1
    /\ Len(log) = 1

\* a body with every field fetch_forecast reads and at least nine entries
FullBody(b) ==
    /\ "current_conditions" \in DOMAIN b
    /\ CurrentFields \subseteq DOMAIN b.current_conditions
    /\ HasDaily(b)
    /\ Len(b.forecast.daily) >= NDays
    /\ \A k \in 1..NDays : DayFields \subseteq DOMAIN b.forecast.daily[k]

\* the forecast string the specification describes: the current values,
\* then the summaries of the first nine entries in array order
ExpectedForecast(b) ==
    LET cc == b.current_conditions
        d == b.forecast.daily
    IN <<"Air-Temp ">> \o Str(cc.air_temperature) \o <<"F (feels like ">>
       \o Str(cc.feels_like) \o <<"F). ">> \o Str(cc.relative_humidity)
       \o <<"% humidity">>
       \o Flatten([k \in 1..NDays |->
             Str(d[k].month_num) \o <<"/">> \o Str(d[k].day_num) \o <<": ">>
             \o Str(d[k].conditions) \o <<", ">> \o Str(d[k].air_temp_high)
             \o <<"/">> \o Str(d[k].air_temp_low) \o <<"F">>])

C8_DataFlow ==
    /\ (Succeeded /\ op = "weather_poem") =>
          /\ Len(log) = 2
          /\ result = log[2].response[1]
    /\ (Succeeded /\ op = "skald_weather") =>
          /\ Len(log) = 4
          /\ FullBody(WeatherBody)
          /\ Len(log[2].messages) = 1
          /\ IsInfix(ExpectedForecast(WeatherBody), log[2].messages[1].content)
          /\ log[2].messages[1].content =
                <<"Write a paragraph describing the following weather in the style of a Viking skald: ">>
                \o ExpectedForecast(WeatherBody)
          /\ log[3].svc = "speech"
          /\ log[3].input = log[2].response[1]
          /\ log[4].path = outputfile \o <<".mp3">>
          /\ log[4].path \in DOMAIN fs
          /\ fs[log[4].path] = log[3].response

\* C8 witness: skald_weather() succeeded on a completion with two choices.
C8_Witness ==
    /\ Succeeded /\ op = "skald_weather"
    /\ Len(log) = 4 /\ Len(log[2].response) = 2
    /\ fs # [x \in {} |-> << >>]

IsPrefixOf(s, t) == Len(s) <= Len(t) /\ \A k \in 1..Len(s) : s[k] = t[k]

\* C9 as the code has it: the external calls of an invocation are a prefix
\* of its pipeline (weather, completion, synthesis, write), so each service
\* is called at most once and in that order; a call is made only after
\* every earlier call of the invocation succeeded; an invocation that
\* returns has made every call of its pipeline exactly once.
C9_LinearOrder ==
    /\ IsPrefixOf([k \in 1..Len(log) |-> log[k].svc], Pipeline(op))
    /\ \A k \in 1..(Len(log) - 1) : log[k].ok
    /\ Succeeded => Len(log) = Len(Pipeline(op))
    /\ pc = "poem_request" => Len(log) = 1
    /\ pc \in {"speech", "load_model", "tts_to_file"} => Len(log) = 2
    /\ pc = "stream_to_file" => Len(log) = 3

\* C9 witness: skald_weather_local() returned after its four calls.
C9_Witness ==
    /\ Succeeded /\ op = "skald_weather_local" /\ Len(log) = 4

\* C9 as claimed: every ended invocation of skald_weather() or
\* skald_weather_local() has requested the weather endpoint exactly once
\* (stated for instances whose configuration has every required key).
C9_WeatherExactlyOnce ==
    (Finished /\ op \in {"skald_weather", "skald_weather_local"}
       /\ RequiredKeys \subseteq DOMAIN config) =>
        Cardinality({k \in 1..Len(log) : log[k].svc = "weather"}) = 1

\* no frame of a method holds anything
FrameEmpty ==
    /\ token = None /\ station_id = None /\ response = NoResponse /\ i = 0
    /\ retstr = None /\ data = None /\ gpt_response = << >>
    /\ output_file_path = None /\ content = None /\ audio = None
    /\ speakerfile = "" /\ tts = ""

\* C10: once the constructor has returned, no step changes config,
\* outputfile or the client, and whenever no method runs nothing but these
\* is kept: every frame is empty.
C10_Immutable ==
    [][ pc \notin {"new", "readlines"} =>
           /\ config' = config
           /\ outputfile' = outputfile
           /\ client' = client
           /\ cfgfile' = cfgfile
           /\ pc' = "idle" => FrameEmpty' ]_vars

\* C10 witness: a second invocation has ended after a first one wrote a file.
C10_Witness ==
    /\ Finished /\ ncalls >= 2
    /\ fs # [x \in {} |-> << >>]
    /\ err # "none"

====
